---- MODULE Spec2Model ----
(***************************************************************************)
(* PulseHammer: open-loop HTTP load generator.                             *)
(*                                                                         *)
(* Spec     one worker process: worker_open_loop (scheduler loop, the      *)
(*          asyncio event loop that runs the spawned tasks, the admission  *)
(*          gate, the final gather and the summary put).                   *)
(* SpecRun  the orchestrator: cli.run (validation, worker sizing, process  *)
(*          spawn, blocking collection, report).                           *)
(* SpecRunFault  SpecRun with workers that can end without a summary at    *)
(*          any point before their put.                                    *)
(* SpecLat  the worker of Spec with the clock readings of do_request       *)
(*          followed (Spec abstracts them to 0), on fewer configurations.  *)
(* SpecSum  the summary computation of worker.py:104-117 on its own.       *)
(* SpecReq  do_request on its own, over responses and exception classes.   *)
(* SpecWarm the worker of Spec with warmup requests before the loop.       *)
(* SpecChoose, SpecInterval, SpecPct, SpecRep  choose_workers, the         *)
(*          interval of worker.py:77, percentile, and the merge followed   *)
(*          by print_report, each on its own.                              *)
(* SpecOut  the end of cli.run: print_report, save_to_csv and              *)
(*          save_report_html on one aggregate.                             *)
(* SpecPerm the merge of the same summaries in two arrival orders.         *)
(* SpecLive the worker under fairness: the event loop runs, time passes,   *)
(*          every attempt ends.                                            *)
(*                                                                         *)
(* Time is an integer clock; one second is UnitsPerSec clock units.  The   *)
(* clock origin is the reading that computes the deadline.  Rates are      *)
(* rationals <<numerator, denominator>>.  None is modelled by NoStatus /   *)
(* NoError.  Floating-point rounding is not modelled.                      *)
(***************************************************************************)
EXTENDS Integers, Sequences, FiniteSets, TLC

\* ---------------------------------------------------------------- bounds
MaxDuration == 3        \* longest run, in clock units
MaxConcurrency == 3     \* largest concurrency cap explored
MaxOverrun == 1         \* how far past the deadline the clock is followed
MaxWorkers == 2         \* largest --workers value explored
MaxCpu == 1             \* largest os.cpu_count() explored
MaxPartTotal == 1       \* most results in a summary, where workers are summarised
MaxLatConcurrency == 1  \* largest cap explored with do_request's clock readings followed
MaxLatDuration == 2     \* longest run explored with them followed, in clock units
MaxResults == 3         \* longest results list summarised on its own
MaxLat == 2             \* longest end - start of a result summarised on its own
MaxWarmup == 1          \* largest --warmup explored
MaxChooseCpu == 4       \* largest os.cpu_count(), where choose_workers is followed on its own
MaxRequested == 3       \* largest requested_workers there
MaxRateNum == 8         \* largest numerator of a rate, where the interval is followed on its own
MaxRateDen == 6         \* largest denominator there
MaxPctLen == 3          \* longest sequence percentile is followed on
MaxPctValue == 2        \* largest value in it
MaxRepWorkers == 2      \* most summaries merged where the report is followed on its own
MaxRepResults == 2      \* most results behind each of them
MaxRepLat == 3          \* longest latency there, in clock units
MaxRepDuration == 1     \* longest duration handed to print_report there
MaxOutWorkers == 2      \* most summaries merged where the end of run is followed on its own
MaxOutResults == 1      \* most results behind each of them
MaxOutLat == 2          \* longest latency there
MaxOutDuration == 1     \* longest configured duration there, in seconds
MaxOutDrain == 1        \* longest time the run takes beyond it, in seconds
MaxPermWorkers == 2     \* most summaries merged where two arrival orders are compared
MaxPermResults == 1     \* most results behind each of them
MaxPermLat == 2         \* longest latency there
MaxBody == 1            \* longest response body, where do_request is followed on its own

\* ------------------------------------------------------------- constants
UnitsPerSec == 4        \* clock units in the 1.0 second of worker.py:77
SleepCap == 2           \* the 0.001 s sleep cap of worker.py:99, in clock units
NoStatus == 0           \* Result.status is None
MainTask == 0           \* the coroutine worker_open_loop itself, as an entry of the ready queue
PerWorkerTarget == 2500 \* per_worker_target of cli.py:72

NoError == "None"        \* Result.error_type is None
NoExc == "None"          \* no exception was raised

VARIABLES
    args,          \* worker: [concurrency, duration, rps_per_worker]
    pc,            \* worker: position of worker_open_loop
    clk,           \* time.perf_counter()
    interval,      \* worker.py:77
    deadline,      \* worker.py:78
    next_fire,     \* worker.py:79
    due,           \* when the loop's next clock reading is due: the wake-up time of a
                   \* pending asyncio.sleep, else the time of the previous reading
    ready,         \* the event loop's FIFO queue of runnable callbacks
    tstate,        \* state of each task created by the scheduler, by tick number
    resp,          \* outcome the network delivered to each task
    sem_value,     \* asyncio.Semaphore._value
    sem_waiters,   \* asyncio.Semaphore._waiters
    results,       \* worker.py:70
    pending,       \* worker.py:80
    launched,      \* tick numbers in the order their do_request recorded its start
    t_start,       \* start = time.perf_counter() of each do_request, in the order of launched
    late,          \* TRUE once a clock reading of the loop came later than it was due
    warmed,        \* history: the number of warmup requests made
    stamped,       \* TRUE when the clock readings of do_request are followed, FALSE when
                   \* they are abstracted to 0 (nothing in the worker reads them back
                   \* before the summary)
    out_q          \* the multiprocessing queue, as seen by this worker

wvars == <<args, pc, clk, interval, deadline, next_fire, due, ready, tstate,
           resp, sem_value, sem_waiters, results, pending, launched, t_start, late,
           warmed, stamped, out_q>>

VARIABLES
    cli_args,        \* orchestrator: the parsed command line (args of cli.run)
    cpu,             \* os.cpu_count(), 0 for None
    opc,             \* orchestrator: position of cli.run
    chosen_workers,  \* cli.py:73
    reason,          \* cli.py:71
    rps_per_worker,  \* cli.py:75
    procs,           \* cli.py:86, the state of each started worker process
    q,               \* cli.py:87
    got,             \* completed q.get() calls of the collection loop
    agg,             \* cli.py:115
    report,          \* what print_report was given, <<>> before
    sent             \* history: every summary put on q so far, in order

ovars == <<cli_args, cpu, opc, chosen_workers, reason, rps_per_worker, procs, q, got,
           agg, report, sent>>

VARIABLES
    fin,             \* the argument of a function followed on its own
    fout             \* its result, <<>> before the call

pvars == <<fin, fout>>

vars == <<wvars, ovars, pvars>>

\* ------------------------------------------------------------- helpers
Min(S) == CHOOSE x \in S : \A y \in S : x <= y

MinOf(a, b) == IF a <= b THEN a ELSE b

MaxOf(a, b) == IF a >= b THEN a ELSE b

\* ceil(a / b) for b > 0
CeilDiv(a, b) == (a + b - 1) \div b

fired == Len(tstate)

RemoveFirst(s, x) ==
    LET i == Min({j \in 1..Len(s) : s[j] = x})
    IN  SubSeq(s, 1, i - 1) \o SubSeq(s, i + 1, Len(s))

\* ---------------------------------------------------------- do_request
\* An outcome is what session.request / resp.read did to one attempt:
\*   exc     the class of the exception raised, NoExc when none was
\*   status  the status code of the response, NoStatus when none arrived
\*   body    len(body) of the body read
\* The exception classes that reach do_request, each with the classes it is
\* an instance of (aiohttp's and asyncio's hierarchy).
Bases(exc) ==
    CASE exc = "TimeoutError" ->
            {"TimeoutError", "Exception"}
      [] exc = "ServerTimeoutError" ->
            {"ServerTimeoutError", "ServerConnectionError", "ClientConnectionError",
             "ClientError", "TimeoutError", "Exception"}
      [] exc = "ClientConnectorError" ->
            {"ClientConnectorError", "ClientOSError", "ClientConnectionError",
             "ClientError", "OSError", "Exception"}
      [] exc = "ServerDisconnectedError" ->
            {"ServerDisconnectedError", "ServerConnectionError", "ClientConnectionError",
             "ClientError", "Exception"}
      [] exc = "ClientPayloadError" ->
            {"ClientPayloadError", "ClientError", "Exception"}
      [] exc = "ValueError" ->
            {"ValueError", "Exception"}

ExcTypes == {"TimeoutError", "ServerTimeoutError", "ClientConnectorError",
             "ServerDisconnectedError", "ClientPayloadError", "ValueError"}

ExceptChainClientFirst ==
    << <<"TimeoutError", "Timeout">>,
       <<"ClientError", "ClientError">>,
       <<"ClientConnectorError", "ConnectionError">>,
       <<"Exception", "UnknownError">> >>

\* worker.py:38-49, the except clauses in their order: <<class caught, error_type>>.
ExceptChain ==
    << <<"TimeoutError", "Timeout">>,
       <<"ClientConnectorError", "ConnectionError">>,
       <<"ClientError", "ClientError">>,
       <<"Exception", "UnknownError">> >>

\* The error_type of the first except clause that catches exc.
Classify(exc) ==
    ExceptChain[Min({ i \in 1..Len(ExceptChain) : ExceptChain[i][1] \in Bases(exc) })][2]

\* What the network does to an attempt in the worker model: two responses and
\* a timeout.
Outcomes == { [exc |-> NoExc, status |-> 200, body |-> 2],
              [exc |-> NoExc, status |-> 500, body |-> 1],
              [exc |-> "TimeoutError", status |-> NoStatus, body |-> 0] }

\* No outcome yet: the attempt has not ended.
NoResponse == [exc |-> NoExc, status |-> NoStatus, body |-> 0]

OkUpTo400(status) == 200 <= status /\ status <= 400

\* worker.py:30, ok=200 <= resp.status < 400
OkStatus(status) == 200 <= status /\ status < 400

MakeResultErrorOnFailure(t, start, end, o) ==
    IF o.exc = NoExc
    THEN [ tick |-> t, ok |-> OkStatus(o.status), status |-> o.status,
           start |-> start, end |-> end,
           response_bytes |-> IF o.body > 0 THEN o.body ELSE 0,
           error_type |-> IF OkStatus(o.status) THEN NoError ELSE "HTTPError" ]
    ELSE [ tick |-> t, ok |-> FALSE, status |-> NoStatus,
           start |-> start, end |-> end, response_bytes |-> 0,
           error_type |-> Classify(o.exc) ]

\* worker.py:22-49, the Result do_request returns for tick t, entered at
\* start and left at end, under outcome o.
MakeResult(t, start, end, o) ==
    IF o.exc = NoExc
    THEN [ tick |-> t, ok |-> OkStatus(o.status), status |-> o.status,
           start |-> start, end |-> end,
           response_bytes |-> IF o.body > 0 THEN o.body ELSE 0,
           error_type |-> NoError ]
    ELSE [ tick |-> t, ok |-> FALSE, status |-> NoStatus,
           start |-> start, end |-> end, response_bytes |-> 0,
           error_type |-> Classify(o.exc) ]

\* ------------------------------------------------------------ scheduler
IntervalUnclamped(rate) == <<rate[2], rate[1]>>

IntervalSecRounded(rate) ==
    IF rate[1] >= rate[2] THEN <<1, rate[1] \div rate[2]>> ELSE <<1, 1>>

\* interval = 1.0 / max(1.0, rps_per_worker), in seconds, as a fraction.
IntervalSec(rate) ==
    IF rate[1] >= rate[2] THEN <<rate[2], rate[1]>> ELSE <<1, 1>>

\* The same interval in clock units.
Interval(rate) == (UnitsPerSec * IntervalSec(rate)[1]) \div IntervalSec(rate)[2]

\* Rates whose interval is a whole number of clock units.
Rates == { <<1, 2>>, <<1, 1>>, <<2, 1>>, <<4, 1>> }

DeadlineReachedLate(now) == now > deadline

DeadlineAfterTick(now) == now >= deadline /\ now < next_fire

\* if now >= deadline: break
DeadlineReached(now) == now >= deadline

TickDueGated(now) == now >= next_fire /\ sem_value > 0

\* if now >= next_fire
TickDue(now) == now >= next_fire

NoGather == FALSE

\* if pending:
ShouldGather == pending # {}

\* ------------------------------------------------------ admission gate
Ungated == FALSE

\* Semaphore.locked(): no permit left, or somebody is queued.
Locked == sem_value = 0 \/ sem_waiters # <<>>

\* A gate state threaded through release / wake-up: value, task states, ready queue.
Gate(v, ts, rd) == [v |-> v, ts |-> ts, rd |-> rd]

Wakeable(g, w) == { i \in 1..Len(w) : g.ts[w[i]] = "waiting" }

WakeUpLast(g, w) ==
    IF Wakeable(g, w) = {} THEN g
    ELSE LET t == w[CHOOSE i \in Wakeable(g, w) : \A j \in Wakeable(g, w) : j <= i]
         IN  Gate(g.v - 1, [g.ts EXCEPT ![t] = "woken"], Append(g.rd, t))

\* Semaphore._wake_up_next(): hand a permit to the first waiter whose future
\* is not done yet and schedule it.
WakeUpNext(g, w) ==
    IF Wakeable(g, w) = {} THEN g
    ELSE LET t == w[Min(Wakeable(g, w))]
         IN  Gate(g.v - 1, [g.ts EXCEPT ![t] = "woken"], Append(g.rd, t))

\* while self._value > 0: if not self._wake_up_next(): break
RECURSIVE WakeWhile(_, _)
WakeWhile(g, w) ==
    IF g.v > 0 /\ Wakeable(g, w) # {} THEN WakeWhile(WakeUpNext(g, w), w) ELSE g

ReleaseNoWake(g, w) == Gate(g.v + 1, g.ts, g.rd)

ReleaseTwice(g, w) == WakeUpNext(Gate(g.v + 2, g.ts, g.rd), w)

\* Semaphore.release()
Release(g, w) == WakeUpNext(Gate(g.v + 1, g.ts, g.rd), w)

\* ------------------------------------------------------------- summary
\* sum(1 for r in results if r.ok)
RECURSIVE OkCount(_)
OkCount(res) == IF res = <<>> THEN 0
                ELSE (IF Head(res).ok THEN 1 ELSE 0) + OkCount(Tail(res))

\* r.status is not None
HasStatus(r) == r.status # NoStatus

\* [(r.end - r.start) for r in results if r.status is not None]
Durations(res) ==
    [ i \in 1..Len(SelectSeq(res, HasStatus)) |->
        SelectSeq(res, HasStatus)[i].end - SelectSeq(res, HasStatus)[i].start ]

\* x put into the ascending sequence s, after the elements equal to it.
Insert(x, s) ==
    SubSeq(s, 1, Cardinality({ i \in 1..Len(s) : s[i] <= x }))
        \o <<x>>
        \o SubSeq(s, Cardinality({ i \in 1..Len(s) : s[i] <= x }) + 1, Len(s))

Unsorted(seq) == seq

\* sorted(seq): an ascending permutation of seq.
RECURSIVE Sorted(_)
Sorted(seq) ==
    IF seq = <<>> THEN <<>>
    ELSE Insert(seq[Len(seq)], Sorted(SubSeq(seq, 1, Len(seq) - 1)))

\* str(r.status) if r.status is not None else "ERR"
Code(r) == IF HasStatus(r) THEN ToString(r.status) ELSE "ERR"

CodesOfStatused(res) ==
    [ k \in { Code(res[i]) : i \in { j \in 1..Len(res) : HasStatus(res[j]) } } |->
        Cardinality({ i \in 1..Len(res) : Code(res[i]) = k }) ]

\* The dict of codes: a function from the codes seen to how often each was.
Codes(res) ==
    [ k \in { Code(res[i]) : i \in 1..Len(res) } |->
        Cardinality({ i \in 1..Len(res) : Code(res[i]) = k }) ]

\* if r.error_type: error_types[r.error_type] += 1
ErrorTypes(res) ==
    [ k \in { res[i].error_type : i \in 1..Len(res) } \ {NoError} |->
        Cardinality({ i \in 1..Len(res) : res[i].error_type = k }) ]

\* sum(r.response_bytes for r in results)
RECURSIVE TotalBytes(_)
TotalBytes(res) == IF res = <<>> THEN 0
                   ELSE Head(res).response_bytes + TotalBytes(Tail(res))

\* fails counted as the results that carry an error_type
FailsByErrorType(res) == Cardinality({ i \in 1..Len(res) : res[i].error_type # NoError })

\* fails = total - oks
Fails(res) == Len(res) - OkCount(res)

\* worker.py:105-127, the dict put on out_q.
Summary(res) ==
    [ total       |-> Len(res),
      oks         |-> OkCount(res),
      fails       |-> Fails(res),
      lat         |-> Sorted(Durations(res)),
      codes       |-> Codes(res),
      error_types |-> ErrorTypes(res),
      total_bytes |-> TotalBytes(res) ]

\* ------------------------------------------------------ worker: Init
\* worker_open_loop is entered: nothing has run yet.
WorkerFresh ==
    /\ pc = "setup"
    /\ clk = 0
    /\ interval = 0
    /\ deadline = 0
    /\ next_fire = 0
    /\ due = 0
    /\ ready = <<>>
    /\ tstate = <<>>
    /\ resp = <<>>
    /\ sem_value = 0
    /\ sem_waiters = <<>>
    /\ results = <<>>
    /\ pending = {}
    /\ launched = <<>>
    /\ t_start = <<>>
    /\ late = FALSE
    /\ warmed = 0
    /\ out_q = <<>>

WorkerInit ==
    /\ args \in [ concurrency    : -1..MaxConcurrency,
                  duration       : 1..MaxDuration,
                  rps_per_worker : Rates,
                  warmup         : {0} ]
    /\ stamped = FALSE
    /\ WorkerFresh

\* The worker with the clock readings of do_request followed, on the runs that
\* fire several ticks under a cap that is at least 1.
WorkerInitLat ==
    /\ args \in [ concurrency    : 1..MaxLatConcurrency,
                  duration       : 1..MaxLatDuration,
                  rps_per_worker : { r \in Rates : r[1] > r[2] },
                  warmup         : {0} ]
    /\ stamped = TRUE
    /\ WorkerFresh

\* The worker on the same runs with warmup requests, the clock readings of
\* do_request abstracted.
WorkerInitWarm ==
    /\ args \in [ concurrency    : 1..MaxLatConcurrency,
                  duration       : 1..MaxLatDuration,
                  rps_per_worker : { r \in Rates : r[1] > r[2] },
                  warmup         : 0..MaxWarmup ]
    /\ stamped = FALSE
    /\ WorkerFresh

\* The orchestrator's variables while the model follows one worker.
OrchParked ==
    /\ cli_args = [rps |-> 0]
    /\ opc = "idle"
    /\ chosen_workers = 0
    /\ reason = <<>>
    /\ rps_per_worker = <<0, 1>>
    /\ procs = <<>>
    /\ q = <<>>
    /\ got = 0
    /\ agg = <<>>
    /\ report = <<>>
    /\ sent = <<>>

OrchIdle == cpu = 0 /\ OrchParked

\* The variables of the functions followed on their own, while they are not.
PureIdle == fin = <<>> /\ fout = <<>>

Init == WorkerInit /\ OrchIdle /\ PureIdle

\* time.perf_counter() as do_request records it.
Stamp(now) == IF stamped THEN now ELSE 0

\* worker.py:23, the start the running do_request of tick t recorded.
StartOf(t) == t_start[Min({ i \in 1..Len(launched) : launched[i] = t })]

\* The coroutine worker_open_loop is suspended and the event loop runs callbacks.
MainSuspended == pc \in {"sleep", "wake", "gather", "gathered"}

\* ------------------------------------------------------ worker: actions
AfterWarmupCounted(res, outs) ==
    res \o [ i \in 1..Len(outs) |-> MakeResult(0, 0, 0, outs[i]) ]

\* worker.py:73-75: results after the warmup loop, whose do_request results are
\* bound to _ and dropped, and after results.clear().
AfterWarmup(res, outs) == <<>>

\* worker.py:57-75: asyncio.Semaphore(args.concurrency) raises ValueError for a
\* negative value, which ends the process without a summary; otherwise the
\* args.warmup warmup requests are awaited one after the other, each ending
\* with some outcome, before anything else runs.
Setup ==
    /\ UNCHANGED <<ovars, pvars>>
    /\ pc = "setup"
    /\ IF args.concurrency < 0
       THEN /\ pc' = "crashed"
            /\ UNCHANGED <<sem_value, results, warmed>>
       ELSE /\ pc' = "deadline"
            /\ sem_value' = args.concurrency
            /\ \E outs \in [1..args.warmup -> Outcomes] :
                  /\ warmed' = warmed + Len(outs)
                  /\ results' = AfterWarmup(results, outs)
    /\ UNCHANGED <<stamped, args, clk, interval, deadline, next_fire, due, ready, tstate,
                   resp, sem_waiters, pending, launched, t_start, late, out_q>>

\* worker.py:77-78
SetDeadline ==
    /\ UNCHANGED <<ovars, pvars>>
    /\ pc = "deadline"
    /\ interval' = Interval(args.rps_per_worker)
    /\ deadline' = clk + args.duration
    /\ due' = clk
    /\ pc' = "next_fire"
    /\ UNCHANGED <<stamped, warmed, args, clk, next_fire, ready, tstate, resp, sem_value,
                   sem_waiters, results, pending, launched, t_start, late, out_q>>

\* worker.py:79-80
SetNextFire ==
    /\ UNCHANGED <<ovars, pvars>>
    /\ pc = "next_fire"
    /\ next_fire' = clk
    /\ pending' = {}
    /\ late' = (clk > due)
    /\ due' = clk
    /\ pc' = "loop"
    /\ UNCHANGED <<stamped, warmed, args, clk, interval, deadline, ready, tstate, resp,
                   sem_value, sem_waiters, results, launched, t_start, out_q>>

FinalizeTwice ==
    /\ pc' = "done"
    /\ out_q' = out_q \o <<Summary(results), Summary(results)>>

\* worker.py:101-127 once nothing is left to wait for: leave the session,
\* compute the summary and put it on the queue.
Finalize ==
    /\ pc' = "done"
    /\ out_q' = Append(out_q, Summary(results))

FireFromNow(now) ==
    /\ tstate' = Append(tstate, "created")
    /\ resp' = Append(resp, NoResponse)
    /\ ready' = Append(ready, fired + 1)
    /\ pending' = pending \cup {fired + 1}
    /\ next_fire' = now + interval
    /\ due' = now
    /\ UNCHANGED <<pc, out_q>>

\* worker.py:93-96
Fire(now) ==
    /\ tstate' = Append(tstate, "created")
    /\ resp' = Append(resp, NoResponse)
    /\ ready' = Append(ready, fired + 1)
    /\ pending' = pending \cup {fired + 1}
    /\ next_fire' = next_fire + interval
    /\ due' = now
    /\ UNCHANGED <<pc, out_q>>

\* worker.py:99
Sleep(now) ==
    /\ due' = now + MinOf(SleepCap, next_fire - now)
    /\ pc' = "sleep"
    /\ UNCHANGED <<tstate, resp, ready, pending, next_fire, out_q>>

\* worker.py:90-91 and 101-102
LeaveLoop ==
    /\ IF ShouldGather
       THEN pc' = "gather" /\ UNCHANGED out_q
       ELSE Finalize
    /\ UNCHANGED <<tstate, resp, ready, pending, next_fire, due>>

\* worker.py:88-99, one pass through the body of the scheduler loop.
LoopIteration ==
    /\ UNCHANGED <<ovars, pvars>>
    /\ pc = "loop"
    /\ late' = (late \/ clk > due)
    /\ IF DeadlineReached(clk) THEN LeaveLoop
       ELSE IF TickDue(clk) THEN Fire(clk)
       ELSE Sleep(clk)
    /\ UNCHANGED <<stamped, warmed, args, clk, interval, deadline, sem_value, sem_waiters, results,
                   launched, t_start>>

\* The event loop's timer: the sleep of worker.py:99 is over, never early.
TimerFire ==
    /\ UNCHANGED <<ovars, pvars>>
    /\ pc = "sleep"
    /\ clk >= due
    /\ pc' = "wake"
    /\ ready' = Append(ready, MainTask)
    /\ UNCHANGED <<stamped, warmed, args, clk, interval, deadline, next_fire, due, tstate, resp,
                   sem_value, sem_waiters, results, pending, launched, t_start, late, out_q>>

\* The event loop resumes worker_open_loop: after the sleep, or after gather.
RunMain ==
    /\ UNCHANGED <<ovars, pvars>>
    /\ MainSuspended
    /\ ready # <<>>
    /\ Head(ready) = MainTask
    /\ ready' = Tail(ready)
    /\ IF pc = "gathered"
       THEN Finalize
       ELSE pc' = "loop" /\ UNCHANGED out_q
    /\ UNCHANGED <<stamped, warmed, args, clk, interval, deadline, next_fire, due, tstate, resp,
                   sem_value, sem_waiters, results, pending, launched, t_start, late>>

TaskStartDropsWhenLocked(t) ==
    /\ tstate[t] = "created"
    /\ IF ~Locked
       THEN /\ sem_value' = sem_value - 1
            /\ tstate' = [tstate EXCEPT ![t] = "inflight"]
            /\ launched' = Append(launched, t)
            /\ t_start' = Append(t_start, Stamp(clk))
            /\ pending' = pending
       ELSE /\ tstate' = [tstate EXCEPT ![t] = "done"]
            /\ pending' = pending \ {t}
            /\ UNCHANGED <<sem_value, launched, t_start>>
    /\ ready' = Tail(ready)
    /\ UNCHANGED <<pc, results, sem_waiters, out_q>>

\* worker.py:83, first step of spawn(): Semaphore.acquire() takes a permit
\* and enters do_request, or queues the task.
TaskStart(t) ==
    /\ tstate[t] = "created"
    /\ IF ~Locked
       THEN /\ sem_value' = sem_value - 1
            /\ tstate' = [tstate EXCEPT ![t] = "inflight"]
            /\ launched' = Append(launched, t)
            /\ t_start' = Append(t_start, Stamp(clk))
            /\ UNCHANGED sem_waiters
       ELSE /\ sem_waiters' = Append(sem_waiters, t)
            /\ tstate' = [tstate EXCEPT ![t] = "waiting"]
            /\ UNCHANGED <<sem_value, launched, t_start>>
    /\ ready' = Tail(ready)
    /\ UNCHANGED <<pc, results, pending, out_q>>

\* worker.py:83-84, a queued task resumes in Semaphore.acquire() holding the
\* permit it was handed, leaves the queue and enters do_request.
TaskAcquired(t) ==
    /\ tstate[t] = "woken"
    /\ LET w == RemoveFirst(sem_waiters, t)
           g == WakeWhile(Gate(sem_value, [tstate EXCEPT ![t] = "inflight"],
                               Tail(ready)), w)
       IN  /\ sem_waiters' = w
           /\ sem_value' = g.v
           /\ tstate' = g.ts
           /\ ready' = g.rd
    /\ launched' = Append(launched, t)
    /\ t_start' = Append(t_start, Stamp(clk))
    /\ UNCHANGED <<pc, results, pending, out_q>>

TaskFinishSkipsFailures(t) ==
    /\ tstate[t] = "ioready"
    /\ results' = IF resp[t].exc = NoExc
                  THEN Append(results, MakeResult(t, StartOf(t), Stamp(clk), resp[t]))
                  ELSE results
    /\ pending' = pending \ {t}
    /\ LET g == Release(Gate(sem_value, [tstate EXCEPT ![t] = "done"], Tail(ready)),
                        sem_waiters)
       IN  /\ sem_value' = g.v
           /\ tstate' = g.ts
           /\ IF pc = "gather" /\ pending' = {}
              THEN ready' = Append(g.rd, MainTask) /\ pc' = "gathered"
              ELSE ready' = g.rd /\ UNCHANGED pc
    /\ UNCHANGED <<sem_waiters, launched, t_start, out_q>>

\* worker.py:84-85 and 95: do_request returns its Result, spawn() appends it
\* and leaves the gate, the task is done and is discarded from pending.
TaskFinish(t) ==
    /\ tstate[t] = "ioready"
    /\ results' = Append(results, MakeResult(t, StartOf(t), Stamp(clk), resp[t]))
    /\ pending' = pending \ {t}
    /\ LET g == Release(Gate(sem_value, [tstate EXCEPT ![t] = "done"], Tail(ready)),
                        sem_waiters)
       IN  /\ sem_value' = g.v
           /\ tstate' = g.ts
           /\ IF pc = "gather" /\ pending' = {}
              THEN ready' = Append(g.rd, MainTask) /\ pc' = "gathered"
              ELSE ready' = g.rd /\ UNCHANGED pc
    /\ UNCHANGED <<sem_waiters, launched, t_start, out_q>>

\* The event loop runs the callback at the head of its ready queue.
RunTask ==
    /\ UNCHANGED <<ovars, pvars>>
    /\ MainSuspended
    /\ ready # <<>>
    /\ Head(ready) # MainTask
    /\ LET t == Head(ready)
       IN  TaskStart(t) \/ TaskAcquired(t) \/ TaskFinish(t)
    /\ UNCHANGED <<stamped, warmed, args, clk, interval, deadline, next_fire, due, resp, late>>

\* The network ends an attempt (response, failure or timeout); the event loop
\* schedules the task that awaits it.
Complete ==
    /\ UNCHANGED <<ovars, pvars>>
    /\ MainSuspended
    /\ \E t \in 1..fired, o \in Outcomes :
        /\ tstate[t] = "inflight"
        /\ tstate' = [tstate EXCEPT ![t] = "ioready"]
        /\ resp' = [resp EXCEPT ![t] = o]
        /\ ready' = Append(ready, t)
    /\ UNCHANGED <<stamped, warmed, args, pc, clk, interval, deadline, next_fire, due, sem_value,
                   sem_waiters, results, pending, launched, t_start, late, out_q>>

\* Time passes.
Tick ==
    /\ UNCHANGED <<ovars, pvars>>
    /\ pc \in {"next_fire", "loop", "sleep", "wake", "gather", "gathered"}
    /\ clk < deadline + MaxOverrun
    /\ clk' = clk + 1
    /\ UNCHANGED <<stamped, warmed, args, pc, interval, deadline, next_fire, due, ready, tstate, resp,
                   sem_value, sem_waiters, results, pending, launched, t_start, late, out_q>>

Next ==
    \/ Setup
    \/ SetDeadline
    \/ SetNextFire
    \/ LoopIteration
    \/ TimerFire
    \/ RunMain
    \/ RunTask
    \/ Complete
    \/ Tick

Spec == Init /\ [][Next]_vars

LatInit == WorkerInitLat /\ OrchIdle /\ PureIdle

WarmInit == WorkerInitWarm /\ OrchIdle /\ PureIdle

SpecWarm == WarmInit /\ [][Next]_vars

SpecLat == LatInit /\ [][Next]_vars

\* What the event loop does on its own: it runs worker_open_loop up to its
\* next await, fires a timer that is due, and runs the callbacks it has ready.
EventLoopStep ==
    Setup \/ SetDeadline \/ SetNextFire \/ LoopIteration \/ TimerFire \/ RunMain \/ RunTask

\* The worker on the runs of SpecLat, the clock readings of do_request
\* abstracted.
WorkerInitLive ==
    /\ args \in [ concurrency    : 1..MaxLatConcurrency,
                  duration       : 1..MaxLatDuration,
                  rps_per_worker : { r \in Rates : r[1] > r[2] },
                  warmup         : {0} ]
    /\ stamped = FALSE
    /\ WorkerFresh

LiveInit == WorkerInitLive /\ OrchIdle /\ PureIdle

\* That worker where the event loop keeps running, time keeps passing, and
\* every attempt inside do_request ends (the aiohttp timeout bounds it).
SpecLive ==
    /\ LiveInit
    /\ [][Next]_vars
    /\ WF_vars(EventLoopStep)
    /\ WF_vars(Tick)
    /\ WF_vars(Complete)

\* ============================================================ orchestrator
\* -H values: each item is a string, written as its characters.
HeaderLists == { <<>>, << <<"K", ":", "V">> >>, << <<"K", "V">> >> }

\* utils.parse_headers raises ValueError for an item without ":".
ParseHeadersFails(hlist) ==
    \E i \in 1..Len(hlist) : \A j \in 1..Len(hlist[i]) : hlist[i][j] # ":"

\* --json values: absent, not JSON, a JSON object, a JSON string literal.
JsonArgs == {"None", "invalid", "object", "string"}

\* worker.py:62-65: json.loads raises on invalid JSON, and .encode() exists
\* only for the str a JSON string literal loads to.
JsonFails(j) == j \in {"invalid", "object"}

\* --rps values: invalid ones, small ones, and ones needing 2 and 4 workers.
RpsValues == {-1, 0, 1, 2, 2501, 7501}

ConfigInvalidRpsOnly(a) == a.rps <= 0

\* cli.py:68
ConfigInvalid(a) == a.rps <= 0 \/ a.duration <= 0

ChooseWorkersNoCap(auto_enabled, requested_workers, rps, per_worker_target) ==
    IF requested_workers # 0 /\ requested_workers > 0
    THEN [chosen |-> requested_workers, reason |-> [text |-> "manual", fields |-> <<>>]]
    ELSE LET cpu_count == IF cpu = 0 THEN 1 ELSE cpu
             base == MaxOf(1, CeilDiv(rps, per_worker_target))
             cap == MaxOf(1, cpu_count * 2)
         IN  IF auto_enabled
             THEN [chosen |-> base,
                   reason |-> [text   |-> "auto (rps/{} -> base={}, cap={}, cpu={})",
                               fields |-> <<per_worker_target, base, cap, cpu_count>>]]
             ELSE [chosen |-> MaxOf(1, cpu_count),
                   reason |-> [text |-> "fallback cpu_count", fields |-> <<>>]]

ChooseWorkersLabelOnly(auto_enabled, requested_workers, rps, per_worker_target) ==
    IF requested_workers # 0 /\ requested_workers > 0
    THEN [chosen |-> requested_workers, reason |-> [text |-> "manual", fields |-> <<>>]]
    ELSE LET cpu_count == IF cpu = 0 THEN 1 ELSE cpu
             base == MaxOf(1, CeilDiv(rps, per_worker_target))
             cap == MaxOf(1, cpu_count * 2)
         IN  IF auto_enabled
             THEN [chosen |-> MinOf(base, cap),
                   reason |-> [text |-> "auto", fields |-> <<>>]]
             ELSE [chosen |-> MaxOf(1, cpu_count),
                   reason |-> [text |-> "fallback cpu_count", fields |-> <<>>]]

\* cli.py:49-64.  The reason is the f-string's text with a {} for each
\* replacement field, and the values of the fields in order.
ChooseWorkers(auto_enabled, requested_workers, rps, per_worker_target) ==
    IF requested_workers # 0 /\ requested_workers > 0
    THEN [chosen |-> requested_workers, reason |-> [text |-> "manual", fields |-> <<>>]]
    ELSE LET cpu_count == IF cpu = 0 THEN 1 ELSE cpu
             base == MaxOf(1, CeilDiv(rps, per_worker_target))
             cap == MaxOf(1, cpu_count * 2)
         IN  IF auto_enabled
             THEN [chosen |-> MinOf(base, cap),
                   reason |-> [text   |-> "auto (rps/{} -> base={}, cap={}, cpu={})",
                               fields |-> <<per_worker_target, base, cap, cpu_count>>]]
             ELSE [chosen |-> MaxOf(1, cpu_count),
                   reason |-> [text |-> "fallback cpu_count", fields |-> <<>>]]

\* worker.py:57-68: what makes worker_open_loop raise before its loop.
WorkerSetupFails(a) ==
    \/ ParseHeadersFails(a.header)
    \/ JsonFails(a.json)
    \/ a.concurrency < 0

\* The summaries a worker can put: Summary of any results of up to MaxPartTotal attempts.
Parts ==
    UNION { { Summary([i \in 1..n |-> MakeResult(i, 0, 1, f[i])]) : f \in [1..n -> Outcomes] }
            : n \in 0..MaxPartTotal }

\* cli.py:115-116
EmptyAgg == [ total |-> 0, oks |-> 0, fails |-> 0, lat |-> <<>>,
              codes |-> <<>>, error_types |-> <<>>, total_bytes |-> 0 ]

AddCountsOverwrite(d, part) ==
    [ k \in DOMAIN d \cup DOMAIN part |->
        IF k \in DOMAIN part THEN part[k] ELSE d[k] ]

\* for k, v in part.items(): d[k] = d.get(k, 0) + v
AddCounts(d, part) ==
    [ k \in DOMAIN d \cup DOMAIN part |->
        (IF k \in DOMAIN d THEN d[k] ELSE 0) + (IF k \in DOMAIN part THEN part[k] ELSE 0) ]

MergeLastBytes(a, part) ==
    [ total       |-> a.total + part.total,
      oks         |-> a.oks + part.oks,
      fails       |-> a.fails + part.fails,
      lat         |-> a.lat \o part.lat,
      codes       |-> AddCounts(a.codes, part.codes),
      error_types |-> AddCounts(a.error_types, part.error_types),
      total_bytes |-> part.total_bytes ]

MergeLatReplaced(a, part) ==
    [ total       |-> a.total + part.total,
      oks         |-> a.oks + part.oks,
      fails       |-> a.fails + part.fails,
      lat         |-> part.lat,
      codes       |-> AddCounts(a.codes, part.codes),
      error_types |-> AddCounts(a.error_types, part.error_types),
      total_bytes |-> a.total_bytes + part.total_bytes ]

MergeDropsFails(a, part) ==
    [ total       |-> a.total + part.total,
      oks         |-> a.oks + part.oks,
      fails       |-> a.fails,
      lat         |-> a.lat \o part.lat,
      codes       |-> AddCounts(a.codes, part.codes),
      error_types |-> AddCounts(a.error_types, part.error_types),
      total_bytes |-> a.total_bytes + part.total_bytes ]

\* cli.py:119-127
Merge(a, part) ==
    [ total       |-> a.total + part.total,
      oks         |-> a.oks + part.oks,
      fails       |-> a.fails + part.fails,
      lat         |-> a.lat \o part.lat,
      codes       |-> AddCounts(a.codes, part.codes),
      error_types |-> AddCounts(a.error_types, part.error_types),
      total_bytes |-> a.total_bytes + part.total_bytes ]

\* The worker's variables while the model follows the orchestrator.
WorkerIdle ==
    /\ args = [concurrency |-> 0, duration |-> 0, rps_per_worker |-> <<0, 1>>,
               warmup |-> 0]
    /\ pc = "idle"
    /\ clk = 0
    /\ interval = 0
    /\ deadline = 0
    /\ next_fire = 0
    /\ due = 0
    /\ ready = <<>>
    /\ tstate = <<>>
    /\ resp = <<>>
    /\ sem_value = 0
    /\ sem_waiters = <<>>
    /\ results = <<>>
    /\ pending = {}
    /\ launched = <<>>
    /\ t_start = <<>>
    /\ late = FALSE
    /\ warmed = 0
    /\ stamped = FALSE
    /\ out_q = <<>>

RunInit ==
    /\ cli_args \in [ rps          : RpsValues,
                      duration     : -1..1,
                      workers      : -1..MaxWorkers,
                      auto_workers : BOOLEAN,
                      concurrency  : -1..1,
                      header       : HeaderLists,
                      json         : JsonArgs ]
    /\ cpu \in 0..MaxCpu
    /\ opc = "start"
    /\ chosen_workers = 0
    /\ reason = <<>>
    /\ rps_per_worker = <<0, 1>>
    /\ procs = <<>>
    /\ q = <<>>
    /\ got = 0
    /\ agg = <<>>
    /\ report = <<>>
    /\ sent = <<>>
    /\ WorkerIdle
    /\ PureIdle

\* cli.py:67-89: validation, worker sizing, per-worker rate.
Validate ==
    /\ UNCHANGED <<wvars, pvars, sent>>
    /\ opc = "start"
    /\ IF ConfigInvalid(cli_args)
       THEN /\ opc' = "abort"
            /\ UNCHANGED <<chosen_workers, reason, rps_per_worker>>
       ELSE LET cw == ChooseWorkers(cli_args.auto_workers, cli_args.workers,
                                    cli_args.rps, PerWorkerTarget)
            IN  /\ chosen_workers' = MaxOf(1, cw.chosen)
                /\ reason' = cw.reason
                /\ rps_per_worker' = <<cli_args.rps, MaxOf(1, cw.chosen)>>
                /\ opc' = "spawn"
    /\ UNCHANGED <<cli_args, cpu, procs, q, got, agg, report>>

\* cli.py:90-94 and 115-116: start one more process; after the last one the
\* empty aggregate is built and collection begins.
StartProcess ==
    /\ UNCHANGED <<wvars, pvars, sent>>
    /\ opc = "spawn"
    /\ procs' = Append(procs, "started")
    /\ IF Len(procs) + 1 = chosen_workers
       THEN opc' = "collect" /\ agg' = EmptyAgg
       ELSE UNCHANGED <<opc, agg>>
    /\ UNCHANGED <<cli_args, cpu, chosen_workers, reason, rps_per_worker, q, got, report>>

\* worker.py:130-134 and 57-68: the process runs worker_open_loop up to its
\* semaphore; an exception there ends it without a summary.
WorkerBoot ==
    /\ UNCHANGED <<wvars, pvars, sent>>
    /\ \E w \in 1..Len(procs) :
        /\ procs[w] = "started"
        /\ procs' = [procs EXCEPT ![w] = IF WorkerSetupFails(cli_args)
                                         THEN "crashed" ELSE "running"]
    /\ UNCHANGED <<cli_args, cpu, opc, chosen_workers, reason, rps_per_worker, q, got,
                   agg, report>>

\* worker.py:101-127: the worker's run ends and it puts its summary.  With a
\* cap of 0 no task ever gets a permit, so the run ends only if no tick fired.
WorkerPut ==
    /\ UNCHANGED <<wvars, pvars>>
    /\ \E w \in 1..Len(procs), part \in Parts :
        /\ procs[w] = "running"
        /\ cli_args.concurrency = 0 => part.total = 0
        /\ procs' = [procs EXCEPT ![w] = "exited"]
        /\ q' = Append(q, part)
        /\ sent' = Append(sent, part)
    /\ UNCHANGED <<cli_args, cpu, opc, chosen_workers, reason, rps_per_worker, got, agg,
                   report>>

\* worker.py:83 and 101-102: with a cap of 0 a fired task waits for a permit
\* for ever, and so does the gather.
WorkerHang ==
    /\ UNCHANGED <<wvars, pvars, sent>>
    /\ cli_args.concurrency = 0
    /\ \E w \in 1..Len(procs) :
        /\ procs[w] = "running"
        /\ procs' = [procs EXCEPT ![w] = "hung"]
    /\ UNCHANGED <<cli_args, cpu, opc, chosen_workers, reason, rps_per_worker, q, got,
                   agg, report>>

AllCollectedAlive(n) ==
    n >= Cardinality({ w \in 1..Len(procs) : procs[w] # "crashed" })

AllCollectedFirst(n) == n >= 1

\* cli.py:117, for _ in range(chosen_workers): the pass that ends the loop.
AllCollected(n) == n = chosen_workers

\* cli.py:117-127: one pass of the collection loop, q.get() blocks on an empty queue.
Collect ==
    /\ UNCHANGED <<wvars, pvars, sent>>
    /\ opc = "collect"
    /\ q # <<>>
    /\ agg' = Merge(agg, Head(q))
    /\ q' = Tail(q)
    /\ got' = got + 1
    /\ opc' = IF AllCollected(got + 1) THEN "join" ELSE "collect"
    /\ UNCHANGED <<cli_args, cpu, chosen_workers, reason, rps_per_worker, procs, report>>

\* cli.py:133-139: join every process, then print the report.
JoinAndReport ==
    /\ UNCHANGED <<wvars, pvars, sent>>
    /\ opc = "join"
    /\ \A w \in 1..Len(procs) : procs[w] \in {"exited", "crashed"}
    /\ report' = <<agg>>
    /\ opc' = "report"
    /\ UNCHANGED <<cli_args, cpu, chosen_workers, reason, rps_per_worker, procs, q, got,
                   agg>>

NextRun ==
    \/ Validate
    \/ StartProcess
    \/ WorkerBoot
    \/ WorkerPut
    \/ WorkerHang
    \/ Collect
    \/ JoinAndReport

SpecRun == RunInit /\ [][NextRun]_vars

\* worker.py:130-134: an exception that worker_open_loop does not handle
\* leaves asyncio.run and ends the process; nothing is put on the queue.
WorkerFault ==
    /\ UNCHANGED <<wvars, pvars, sent>>
    /\ \E w \in 1..Len(procs) :
        /\ procs[w] \in {"started", "running"}
        /\ procs' = [procs EXCEPT ![w] = "crashed"]
    /\ UNCHANGED <<cli_args, cpu, opc, chosen_workers, reason, rps_per_worker, q, got,
                   agg, report>>

\* The run with workers that can fault at any point before their put.
NextRunFault ==
    \/ Validate
    \/ StartProcess
    \/ WorkerBoot
    \/ WorkerPut
    \/ WorkerHang
    \/ WorkerFault
    \/ Collect
    \/ JoinAndReport

SpecRunFault == RunInit /\ [][NextRunFault]_vars

\* ================================================== orchestrator properties
\* The run ended in a configuration error before any process was started.
Aborted == opc = "abort" /\ procs = <<>>

\* The run ended with a report built from one summary per started process.
Reported == opc = "report" /\ got = Len(procs) /\ Len(procs) = chosen_workers

\* C7 as stated: the effective rates 1 / interval of the workers add up to
\* the aggregate target rate.
C7_Original ==
    (opc \in {"spawn", "collect", "join", "report"} /\ cli_args.concurrency >= 1
        /\ ~WorkerSetupFails(cli_args)) =>
        LET iv == IntervalSec(rps_per_worker)
        IN  chosen_workers * iv[2] = cli_args.rps * iv[1]

\* C8 as stated: with a cap of 0 or below no worker process is started.
C8_Original ==
    cli_args.concurrency <= 0 => procs = <<>>

\* C25: the rate handed to the worker processes is exactly rps /
\* chosen_workers, one value for all of them, and the interval a worker
\* derives from it is the exact reciprocal of that fraction whenever the rate
\* is at least 1 (1 second below that).
C25_FractionalRate ==
    opc \in {"spawn", "collect", "join", "report"} =>
        /\ rps_per_worker[2] > 0
        /\ rps_per_worker[1] * chosen_workers = cli_args.rps * rps_per_worker[2]
        /\ LET iv == IntervalSec(rps_per_worker)
           IN  IF cli_args.rps >= chosen_workers
               THEN iv[1] * cli_args.rps = iv[2] * chosen_workers
               ELSE iv[1] = iv[2]

C25_Witness ==
    /\ opc = "collect"
    /\ cli_args.rps = 2501
    /\ chosen_workers = 2
    /\ IntervalSec(rps_per_worker) = <<2, 2501>>
    /\ \A w \in 1..2 : procs[w] = "running"

\* C9: with rps <= 0 or duration <= 0 the run aborts: no process is started,
\* no summary is received, nothing is reported.
C9_InvalidRateOrDurationAborts ==
    (cli_args.rps <= 0 \/ cli_args.duration <= 0) =>
        /\ opc \in {"start", "abort"}
        /\ procs = <<>>
        /\ q = <<>>
        /\ got = 0
        /\ report = <<>>

C9_Witness ==
    /\ opc = "abort"
    /\ cli_args.rps > 0
    /\ cli_args.duration <= 0

\* C10 as stated: a run that can go no further has aborted before any spawn
\* or has reported from the summaries of all its workers.
C10_Original ==
    ~ENABLED NextRun => (Aborted \/ Reported)

\* The f entries of the summaries in parts, added up.
RECURSIVE SumField(_, _)
SumField(parts, f) ==
    IF parts = <<>> THEN 0 ELSE Head(parts)[f] + SumField(Tail(parts), f)

\* A worker process ended without putting a summary.
SomeCrashed == \E w \in 1..Len(procs) : procs[w] = "crashed"

\* C11: when a worker has ended without a summary, the summaries the other
\* workers put are exactly the ones merged so far followed by the ones still
\* queued, the merged counts are their sums, and a queued summary is never
\* stuck: the orchestrator can take it, or is still starting processes.
C11_FaultLeavesOthersIntact ==
    SomeCrashed =>
        /\ got <= Len(sent)
        /\ q = SubSeq(sent, got + 1, Len(sent))
        /\ opc \in {"collect", "join", "report"} =>
              /\ agg.total = SumField(SubSeq(sent, 1, got), "total")
              /\ agg.oks = SumField(SubSeq(sent, 1, got), "oks")
              /\ agg.fails = SumField(SubSeq(sent, 1, got), "fails")
              /\ agg.total_bytes = SumField(SubSeq(sent, 1, got), "total_bytes")
        /\ q # <<>> => (ENABLED Collect \/ ENABLED StartProcess)

C11_Witness ==
    /\ SomeCrashed
    /\ ~WorkerSetupFails(cli_args)
    /\ Len(procs) = 2
    /\ got = 1
    /\ agg.total = 1
    /\ agg.fails = 1
    /\ q = <<>>

\* C12: once a worker has ended without a summary the collection loop never
\* completes and no report is produced; when nothing more can happen the
\* orchestrator is in the loop, waiting on an empty queue.
C12_CrashBlocksCollection ==
    SomeCrashed =>
        /\ got < chosen_workers
        /\ opc \in {"spawn", "collect"}
        /\ report = <<>>
        /\ ~ENABLED NextRunFault => (opc = "collect" /\ q = <<>>)

C12_Witness ==
    /\ SomeCrashed
    /\ ~ENABLED NextRunFault
    /\ Len(procs) = 2
    /\ got = 1
    /\ agg.total = 1

\* C13: the report is printed only after one q.get() per started process has
\* returned, every process having put exactly one summary, and it shows the
\* merge of them all.
C13_ReportAfterAllSummaries ==
    /\ got <= Len(sent)
    /\ Len(sent) = Cardinality({ w \in 1..Len(procs) : procs[w] = "exited" })
    /\ report # <<>> =>
          /\ Len(procs) = chosen_workers
          /\ got = Len(procs)
          /\ Len(sent) = got
          /\ report[1] = agg
          /\ agg.total = SumField(sent, "total")
          /\ agg.oks = SumField(sent, "oks")
          /\ agg.fails = SumField(sent, "fails")

C13_Witness ==
    /\ report # <<>>
    /\ chosen_workers = 2
    /\ got = 2
    /\ agg.total = 2
    /\ agg.oks = 1

\* ======================================================== worker properties
\* Attempts inside do_request: started and not yet returned.
InFlight == Cardinality({ t \in 1..fired : tstate[t] \in {"inflight", "ioready"} })

LoopLeft == pc \in {"gather", "gathered", "done"}

\* R * D as the fraction RDNum / RDDen (R per second, D in clock units).
RDNum == args.rps_per_worker[1] * args.duration
RDDen == args.rps_per_worker[2] * UnitsPerSec

RateAtLeastOne == args.rps_per_worker[1] >= args.rps_per_worker[2]

\* The cap is at least the number of ticks a run can fire: the gate never limits.
NoLimiting == args.concurrency >= CeilDiv(RDNum, RDDen)

\* C1: with a cap C >= 1, at most C attempts are inside do_request at once,
\* whatever the rate and even if no request ever completes.
C1_ConcurrencyCap ==
    args.concurrency >= 1 => InFlight <= args.concurrency

C1_Witness ==
    /\ args.concurrency >= 1
    /\ InFlight = args.concurrency
    /\ fired > args.concurrency
    /\ sem_waiters # <<>>
    /\ results = <<>>

\* C2: the summary is put only when every task the scheduler created is done,
\* and its total is the number of ticks fired.
C2_SummaryAfterAllTasks ==
    out_q # <<>> =>
        /\ out_q[1].total = fired
        /\ \A t \in 1..fired : tstate[t] = "done"

C2_Witness ==
    /\ out_q # <<>>
    /\ out_q[1].total = fired
    /\ fired >= 3
    /\ args.concurrency = 1

\* C3: a task is created only by a loop iteration that read the clock before
\* the deadline; once the loop is left nothing more is created, and the worker
\* finishes only with every created task done (none is cancelled).
C3_NoFireAfterDeadline ==
    [][ /\ (fired' > fired => (pc = "loop" /\ clk < deadline))
        /\ (LoopLeft => (LoopLeft' /\ fired' = fired))
        /\ (pc' = "done" => \A t \in 1..fired : tstate'[t] = "done") ]_vars

C3_Witness ==
    /\ pc = "gather"
    /\ clk >= deadline
    /\ \E t \in 1..fired : tstate[t] \in {"created", "waiting", "inflight"}

\* C4 as stated: at rate R >= 1, with a gate that never limits, the number of
\* tasks dispatched by the time the loop stops is within 1 of R * D.
C4_Original ==
    (LoopLeft /\ RateAtLeastOne /\ NoLimiting) =>
        /\ fired * RDDen <= RDNum + RDDen
        /\ fired * RDDen >= RDNum - RDDen

\* C4 as amended: the number dispatched is always below R * D + 1, and it is
\* at least R * D when no clock reading of the loop came late.
C4_Dispatched ==
    (LoopLeft /\ RateAtLeastOne) =>
        /\ fired * RDDen < RDNum + RDDen
        /\ (~late => fired * RDDen >= RDNum)

C4_Witness ==
    /\ LoopLeft
    /\ RateAtLeastOne
    /\ NoLimiting
    /\ ~late
    /\ fired = 3
    /\ args.duration = 3

\* C5: a loop iteration before the deadline fires the due tick and stays in
\* the loop whatever the state of the gate, and suspends only in the sleep it
\* takes when no tick is due.
C5_LoopNeverBlocked ==
    [][ (pc = "loop" /\ clk' = clk /\ clk < deadline) =>
            IF clk >= next_fire
            THEN /\ fired' = fired + 1
                 /\ next_fire' = next_fire + interval
                 /\ pc' = "loop"
            ELSE /\ fired' = fired
                 /\ pc' = "sleep" ]_vars

C5_Witness ==
    /\ pc = "loop"
    /\ args.concurrency >= 1
    /\ sem_value = 0
    /\ InFlight = args.concurrency
    /\ fired > args.concurrency
    /\ tstate[fired] = "created"

\* C6: do_request starts in tick order, also for tasks that queued on the
\* gate; results need not be in tick order.
C6_StartInTickOrder ==
    \A i \in 1..Len(launched) : launched[i] = i

C6_Witness ==
    /\ args.concurrency = 2
    /\ Len(launched) >= 3
    /\ Len(results) >= 2
    /\ results[1].tick = 2
    /\ results[2].tick = 1

\* seq is in ascending order.
Ascending(seq) == \A i \in 1..Len(seq) - 1 : seq[i] <= seq[i + 1]

\* C14: the worker's queue never holds more than one summary of its own; it
\* holds one exactly when worker_open_loop has run to its end, which is after
\* every task it created has appended its result; the summary counts all of
\* them and its latencies are in ascending order; and once put, neither the
\* summary nor the results it was computed from change.
C14_OneSummaryAtEnd ==
    /\ [](/\ Len(out_q) <= 1
          /\ (pc = "done") <=> (out_q # <<>>)
          /\ out_q # <<>> =>
                /\ Len(results) = fired
                /\ pending = {}
                /\ out_q[1].total = Len(results)
                /\ Ascending(out_q[1].lat)
                /\ Len(out_q[1].lat) =
                      Cardinality({ i \in 1..Len(results) : results[i].status # NoStatus }))
    /\ [][out_q # <<>> => (out_q' = out_q /\ results' = results)]_vars

C14_Witness ==
    /\ pc = "done"
    /\ Len(out_q) = 1
    /\ Len(out_q[1].lat) = 2
    /\ out_q[1].lat[1] < out_q[1].lat[2]
    /\ \E i, j \in 1..Len(results) :
          /\ i < j
          /\ results[i].status # NoStatus
          /\ results[j].status # NoStatus
          /\ results[i].end - results[i].start > results[j].end - results[j].start

\* The ticks whose result has been appended.
Recorded == { results[i].tick : i \in 1..Len(results) }

\* C21: a step in which a request ends (the network delivers its outcome, or
\* its task appends the Result) changes none of next_fire, interval, deadline
\* and creates no task; every tick enters do_request at most once and has at
\* most one result, every ended request has exactly one, and a worker that is
\* done has one result per fired tick.
C21_FailuresRateNeutral ==
    /\ [](/\ Cardinality(Recorded) = Len(results)
          /\ Recorded = { t \in 1..fired : tstate[t] = "done" }
          /\ Cardinality({ launched[i] : i \in 1..Len(launched) }) = Len(launched)
          /\ pc = "done" => Len(results) = fired)
    /\ [][(results' # results \/ (Len(resp') = Len(resp) /\ resp' # resp)) =>
            /\ next_fire' = next_fire
            /\ interval' = interval
            /\ deadline' = deadline
            /\ Len(tstate') = Len(tstate)
            /\ Len(launched') = Len(launched)
            /\ pending' \subseteq pending
            /\ Len(results') <= Len(results) + 1]_vars

C21_Witness ==
    /\ pc = "done"
    /\ ~late
    /\ fired = 3
    /\ args.duration = 3
    /\ \E i, j \in 1..3 :
          /\ results[i].error_type = "Timeout"
          /\ results[j].status = 500

\* The values of the dict d, added up.
RECURSIVE SumValues(_)
SumValues(d) ==
    IF DOMAIN d = {} THEN 0
    ELSE LET k == CHOOSE x \in DOMAIN d : TRUE
         IN  d[k] + SumValues([ x \in DOMAIN d \ {k} |-> d[x] ])

\* d.get(k, 0)
Get(d, k) == IF k \in DOMAIN d THEN d[k] ELSE 0

\* The response_bytes of the outcomes in rs, added up.
RECURSIVE SumBodies(_)
SumBodies(rs) ==
    IF rs = <<>> THEN 0
    ELSE (IF Head(rs).exc = NoExc THEN Head(rs).body ELSE 0) + SumBodies(Tail(rs))

\* C22: the warmup requests are all made before the deadline and next_fire are
\* computed and leave the worker as they found it; results only ever holds
\* the results of fired ticks, and the summary is determined by the outcomes
\* of the fired ticks alone, whatever the warmup count.
C22_WarmupExcluded ==
    /\ pc = "setup" => warmed = 0
    /\ pc \notin {"setup", "crashed"} => warmed = args.warmup
    /\ pc = "deadline" =>
          /\ results = <<>>
          /\ fired = 0
          /\ clk = 0 /\ deadline = 0 /\ next_fire = 0
    /\ Recorded \subseteq 1..fired
    /\ Len(results) <= fired
    /\ out_q # <<>> =>
          /\ out_q[1].total = fired
          /\ out_q[1].oks = Cardinality({ t \in 1..fired :
                                 /\ resp[t].exc = NoExc
                                 /\ 200 <= resp[t].status
                                 /\ resp[t].status < 400 })
          /\ out_q[1].fails = fired - out_q[1].oks
          /\ Len(out_q[1].lat) = Cardinality({ t \in 1..fired : resp[t].exc = NoExc })
          /\ SumValues(out_q[1].codes) = fired
          /\ out_q[1].total_bytes = SumBodies(resp)

C22_Witness ==
    /\ out_q # <<>>
    /\ args.warmup = 1
    /\ warmed = 1
    /\ fired = 2
    /\ out_q[1].total = 2
    /\ out_q[1].oks = 1

\* Tasks holding a permit: handed one on wake-up, or inside async with sem.
Holding == Cardinality({ t \in 1..fired : tstate[t] \in {"woken", "inflight", "ioready"} })

\* C34: with a cap C >= 1, once the gate exists the free permits and the
\* tasks holding one add up to C in every state; a task holds a permit from
\* its acquire until its request has ended, whatever the outcome, and not
\* after; when the worker is done all C permits are free.
C34_PermitsConserved ==
    (args.concurrency >= 1 /\ pc # "setup") =>
        /\ sem_value + Holding = args.concurrency
        /\ sem_value >= 0
        /\ \A i \in 1..Len(results) : tstate[results[i].tick] = "done"
        /\ Cardinality({ t \in 1..fired : tstate[t] = "done" }) = Len(results)
        /\ pc = "done" => sem_value = args.concurrency

C34_Witness ==
    /\ args.concurrency = 1
    /\ sem_value = 0
    /\ Len(results) >= 2
    /\ results[1].error_type = "Timeout"
    /\ results[2].status = 200
    /\ \E t \in 1..fired : tstate[t] = "woken"

\* C35: next_fire starts as the clock reading of worker.py:79 and from then
\* on next_fire - fired * interval never changes: each tick fired adds
\* exactly one interval and nothing else writes next_fire; the loop sleeps
\* only when no tick is due, so the ticks it is behind with are fired in
\* consecutive iterations without suspending.
C35_NextFireOnGrid ==
    [][ /\ (pc = "next_fire" /\ pc' # pc) => (next_fire' = clk /\ fired' = 0)
        /\ pc \notin {"setup", "deadline", "next_fire"} =>
              /\ interval' = interval
              /\ fired' \in {fired, fired + 1}
              /\ next_fire' - fired' * interval = next_fire - fired * interval
        /\ (pc = "loop" /\ pc' = "sleep") => clk < next_fire
        /\ (pc = "loop" /\ clk' = clk /\ clk < deadline /\ clk >= next_fire) =>
              (fired' = fired + 1 /\ pc' = "loop") ]_vars

C35_Witness ==
    /\ pc = "loop"
    /\ late
    /\ fired >= 2
    /\ tstate[fired] = "created"
    /\ tstate[fired - 1] = "created"
    /\ next_fire <= clk
    /\ clk < deadline

\* Tick t has its result in results, once.
RecordedOnce(t) == Cardinality({ i \in 1..Len(results) : results[i].tick = t }) = 1

\* C36: with a cap C >= 1 and attempts that all end, every task created
\* enters do_request and gets exactly one result recorded, and the worker
\* ends with its summary put, counting them all.
C36_WorkerTerminates ==
    (args.concurrency >= 1) =>
        <>[](/\ pc = "done"
             /\ Len(out_q) = 1
             /\ out_q[1].total = fired
             /\ \A t \in 1..fired :
                   t \in { launched[i] : i \in 1..Len(launched) } /\ RecordedOnce(t))

C36_Witness ==
    /\ pc = "done"
    /\ args.concurrency = 1
    /\ fired = 2
    /\ Len(out_q) = 1
    /\ out_q[1].total = 2
    /\ results[1].tick = 1
    /\ results[2].tick = 2

\* C37: the cap limits the attempts inside do_request, not the tasks
\* created: pending is every task created and not finished, whatever its
\* number; a task that has not got its slot keeps the worker from finishing,
\* at the deadline and after it, and every task created is in the results
\* once when it has finished, also when its request started after the
\* deadline.
C37_CapBoundsSlotsOnly ==
    (args.concurrency >= 1 /\ pc \notin {"setup", "deadline", "next_fire"}) =>
        /\ pending = { t \in 1..fired : tstate[t] # "done" }
        /\ InFlight <= args.concurrency
        /\ \A t \in 1..fired : tstate[t] = "done" => RecordedOnce(t)
        /\ (\E t \in 1..fired : tstate[t] \in {"created", "waiting", "woken"}) => pc # "done"
        /\ out_q # <<>> => out_q[1].total = fired

C37_Witness ==
    /\ pc = "done"
    /\ args.concurrency = 1
    /\ fired = 2
    /\ results[1].tick = 1
    /\ results[1].end >= deadline
    /\ results[2].tick = 2
    /\ results[2].start >= results[1].end
    /\ out_q[1].total = 2

\* ======================================================= merge properties
\* The counts of key k in the dicts f of the summaries in parts, added up.
RECURSIVE SumKey(_, _, _)
SumKey(parts, f, k) ==
    IF parts = <<>> THEN 0 ELSE Get(Head(parts)[f], k) + SumKey(Tail(parts), f, k)

\* The keys of the dicts f of the summaries in parts.
Keys(parts, f) == UNION { DOMAIN parts[i][f] : i \in 1..Len(parts) }

\* C27: once the summaries of all the workers are merged, the aggregate
\* total, oks, fails and total_bytes are the sums of the workers' values, and
\* the aggregate codes and error_types hold exactly the workers' keys, each
\* with the sum of its counts over the workers.
C27_AggregateIsSum ==
    (opc \in {"join", "report"} /\ got = chosen_workers) =>
        /\ Len(sent) = chosen_workers
        /\ agg.total = SumField(sent, "total")
        /\ agg.oks = SumField(sent, "oks")
        /\ agg.fails = SumField(sent, "fails")
        /\ agg.total_bytes = SumField(sent, "total_bytes")
        /\ DOMAIN agg.codes = Keys(sent, "codes")
        /\ \A k \in DOMAIN agg.codes : agg.codes[k] = SumKey(sent, "codes", k)
        /\ DOMAIN agg.error_types = Keys(sent, "error_types")
        /\ \A k \in DOMAIN agg.error_types :
              agg.error_types[k] = SumKey(sent, "error_types", k)

C27_Witness ==
    /\ opc = "join"
    /\ got = 2
    /\ chosen_workers = 2
    /\ Get(agg.codes, "ERR") = 2
    /\ Get(agg.error_types, "Timeout") = 2
    /\ agg.fails = 2

\* C28: at every point of the collection, whatever number of summaries has
\* been merged, the aggregate total is oks + fails and the merged latency
\* list has total minus the "ERR" count entries; each summary put has the
\* same shape.
C28_MergeKeepsShape ==
    /\ \A i \in 1..Len(sent) :
          /\ sent[i].total = sent[i].oks + sent[i].fails
          /\ Len(sent[i].lat) = sent[i].total - Get(sent[i].codes, "ERR")
    /\ opc \in {"collect", "join", "report"} =>
          /\ agg.total = agg.oks + agg.fails
          /\ Len(agg.lat) = agg.total - Get(agg.codes, "ERR")
          /\ agg.total = SumField(SubSeq(sent, 1, got), "total")

C28_Witness ==
    /\ opc = "collect"
    /\ chosen_workers = 2
    /\ got = 1
    /\ q # <<>>
    /\ agg.total = 1
    /\ agg.fails = 1
    /\ Get(agg.codes, "ERR") = 1
    /\ agg.lat = <<>>
    /\ Len(Head(q).lat) = 1

\* ================================================ the summary on its own
\* worker.py:104-127 applied to any results list of up to MaxResults results,
\* the i-th entered at time i, lasting up to MaxLat, with any outcome.
SumInput(n, f) == [ i \in 1..n |-> MakeResult(i, i, i + f[i][1], f[i][2]) ]

SumInit ==
    /\ \E n \in 0..MaxResults :
          \E f \in [ 1..n -> (0..MaxLat) \X Outcomes ] : fin = SumInput(n, f)
    /\ fout = <<>>
    /\ WorkerIdle
    /\ OrchIdle

\* worker.py:104-117
Summarise ==
    /\ fout = <<>>
    /\ fout' = <<Summary(fin)>>
    /\ UNCHANGED <<fin, wvars, ovars>>

NextSum == Summarise

SpecSum == SumInit /\ [][NextSum]_vars

\* C15: in every summary total = oks + fails with neither negative; total is
\* the number of results and oks the number of them that are ok.
C15_TotalIsOksPlusFails ==
    fout # <<>> =>
        /\ fout[1].total = fout[1].oks + fout[1].fails
        /\ fout[1].oks >= 0
        /\ fout[1].fails >= 0
        /\ fout[1].total = Len(fin)
        /\ fout[1].oks = Cardinality({ i \in 1..Len(fin) : fin[i].ok })

C15_Witness ==
    /\ fout # <<>>
    /\ fout[1].oks = 1
    /\ fout[1].fails = 2
    /\ \E i, j \in 1..Len(fin) : fin[i].status = 500 /\ fin[j].status = NoStatus

\* C16: the keys of the codes map are the decimal status codes of the results
\* that have one, and "ERR" when some result has none; its values sum to total.
C16_CodesSumToTotal ==
    fout # <<>> =>
        /\ DOMAIN fout[1].codes =
              { IF fin[i].status = NoStatus THEN "ERR" ELSE ToString(fin[i].status) :
                i \in 1..Len(fin) }
        /\ \A k \in DOMAIN fout[1].codes : fout[1].codes[k] >= 1
        /\ SumValues(fout[1].codes) = fout[1].total

C16_Witness ==
    /\ fout # <<>>
    /\ fout[1].total = 3
    /\ DOMAIN fout[1].codes = {"200", "ERR"}
    /\ fout[1].codes["ERR"] = 2

\* C17: the latencies of a summary are in ascending order; every duration
\* occurs in them as often as it occurs among the results that have a status,
\* so there are total minus the "ERR" count of them.
C17_LatenciesSorted ==
    fout # <<>> =>
        /\ Ascending(fout[1].lat)
        /\ \A v \in 0..MaxLat :
              Cardinality({ i \in 1..Len(fout[1].lat) : fout[1].lat[i] = v }) =
              Cardinality({ i \in 1..Len(fin) :
                              fin[i].status # NoStatus /\ fin[i].end - fin[i].start = v })
        /\ \A i \in 1..Len(fout[1].lat) : fout[1].lat[i] \in 0..MaxLat
        /\ Len(fout[1].lat) = fout[1].total - Get(fout[1].codes, "ERR")

C17_Witness ==
    /\ fout # <<>>
    /\ Len(fin) = 3
    /\ fin[1].status # NoStatus /\ fin[1].end - fin[1].start = 2
    /\ fin[2].status = NoStatus /\ fin[2].end - fin[2].start = 1
    /\ fin[3].status # NoStatus /\ fin[3].end - fin[3].start = 0
    /\ fout[1].lat = <<0, 2>>

\* ============================================== do_request on its own
\* Status codes on both sides of each edge of [200, 400).
Statuses == {100, 199, 200, 204, 301, 399, 400, 404, 500, 599}

\* Everything session.request and resp.read can do: a response with any status
\* and body, or an exception, raised before a status arrived or after one did
\* (while the body was read).
AllOutcomes ==
    [ exc : {NoExc}, status : Statuses, body : 0..MaxBody ]
        \cup [ exc : ExcTypes, status : {NoStatus, 200}, body : {0} ]

ReqInit ==
    /\ \E start \in 0..1, d \in 0..MaxLat, o \in AllOutcomes :
          fin = [ start |-> start, end |-> start + d, o |-> o ]
    /\ fout = <<>>
    /\ WorkerIdle
    /\ OrchIdle

\* worker.py:22-49
DoRequest ==
    /\ fout = <<>>
    /\ fout' = <<MakeResult(1, fin.start, fin.end, fin.o)>>
    /\ UNCHANGED <<fin, wvars, ovars>>

NextReq == DoRequest

SpecReq == ReqInit /\ [][NextReq]_vars

\* C18: ok is true exactly when the Result has a status and it is in
\* [200, 400); the status is the response's when no exception was raised and
\* absent otherwise, and a Result without a status is never ok.
C18_OkIffStatusInRange ==
    fout # <<>> =>
        /\ fout[1].ok <=> (/\ fout[1].status # NoStatus
                           /\ 200 <= fout[1].status
                           /\ fout[1].status < 400)
        /\ fout[1].status = (IF fin.o.exc = NoExc THEN fin.o.status ELSE NoStatus)
        /\ fout[1].status = NoStatus => ~fout[1].ok

C18_Witness ==
    /\ fout # <<>>
    /\ fin.o.exc = NoExc
    /\ fin.o.status = 399
    /\ fout[1].ok

\* C19 as stated: error_type is present exactly when the outcome is not a success.
C19_Original ==
    fout # <<>> => (fout[1].error_type # NoError <=> ~fout[1].ok)

\* C19 as amended: error_type is present exactly when the Result has no status
\* (an exception ended the attempt); an outcome with an error_type is never a
\* success, but a response whose status is outside [200, 400) is not a success
\* and has no error_type.
C19_ErrorKindIffNoStatus ==
    fout # <<>> =>
        /\ fout[1].error_type # NoError <=> fout[1].status = NoStatus
        /\ fout[1].error_type # NoError => ~fout[1].ok
        /\ fout[1].error_type \in
              {NoError, "Timeout", "ConnectionError", "ClientError", "UnknownError"}

C19_Witness ==
    /\ fout # <<>>
    /\ fout[1].status = 500
    /\ ~fout[1].ok
    /\ fout[1].error_type = NoError

\* The error kind the classification names for an exception of class exc.
Kind(exc) ==
    IF "TimeoutError" \in Bases(exc) THEN "Timeout"
    ELSE IF "ClientConnectorError" \in Bases(exc) THEN "ConnectionError"
    ELSE IF "ClientError" \in Bases(exc) THEN "ClientError"
    ELSE "UnknownError"

\* C20: every exception raised by the request is caught by one of the except
\* clauses and do_request returns a Result: Timeout for a timeout, otherwise
\* ConnectionError for a failure to connect, otherwise ClientError for any
\* other aiohttp error, otherwise UnknownError; the Result has no status, is
\* not ok, has 0 bytes and carries the start and the end that were read.
C20_FailuresClassified ==
    /\ fout = <<>> => ENABLED DoRequest
    /\ (fout # <<>> /\ fin.o.exc # NoExc) =>
          /\ \E i \in 1..Len(ExceptChain) : ExceptChain[i][1] \in Bases(fin.o.exc)
          /\ fout[1].error_type = Kind(fin.o.exc)
          /\ fout[1].status = NoStatus
          /\ ~fout[1].ok
          /\ fout[1].response_bytes = 0
          /\ fout[1].start = fin.start
          /\ fout[1].end = fin.end

C20_Witness ==
    /\ fout # <<>>
    /\ fin.o.exc = "ClientConnectorError"
    /\ fin.o.status = NoStatus
    /\ fin.end > fin.start
    /\ fout[1].error_type = "ConnectionError"

\* ========================================== choose_workers on its own
\* rps values on both sides of 1, 2 and 4 times the per-worker target.
ChooseRps == {1, 2499, 2500, 2501, 5000, 5001, 7501, 10000}

ChooseInit ==
    /\ fin \in [ auto_enabled      : BOOLEAN,
                 requested_workers : -1..MaxRequested,
                 rps               : ChooseRps,
                 per_worker_target : {PerWorkerTarget} ]
    /\ fout = <<>>
    /\ cpu \in 0..MaxChooseCpu
    /\ OrchParked
    /\ WorkerIdle

\* cli.py:49-64
Choose ==
    /\ fout = <<>>
    /\ fout' = <<ChooseWorkers(fin.auto_enabled, fin.requested_workers, fin.rps,
                               fin.per_worker_target)>>
    /\ UNCHANGED <<fin, wvars, ovars>>

NextChoose == Choose

SpecChoose == ChooseInit /\ [][NextChoose]_vars

\* ceil(a / b) for a, b > 0: the least n with n * b >= a.
RefCeil(a, b) == CHOOSE n \in 0..a : n * b >= a /\ (n - 1) * b < a

\* os.cpu_count() or 1
RefCpu == IF cpu = 0 THEN 1 ELSE cpu

RefBase == IF RefCeil(fin.rps, fin.per_worker_target) >= 1
           THEN RefCeil(fin.rps, fin.per_worker_target) ELSE 1

RefCap == IF 2 * RefCpu >= 1 THEN 2 * RefCpu ELSE 1

\* C23: choose_workers returns requested_workers when it is positive;
\* otherwise, with auto enabled, the smaller of max(1, ceil(rps / target))
\* and max(1, 2 * cpu_count); otherwise max(1, cpu_count); always >= 1.
C23_ChooseWorkersReference ==
    fout # <<>> =>
        /\ fout[1].chosen =
              (IF fin.requested_workers > 0 THEN fin.requested_workers
               ELSE IF fin.auto_enabled
                    THEN (IF RefBase <= RefCap THEN RefBase ELSE RefCap)
                    ELSE RefCpu)
        /\ fout[1].chosen >= 1

C23_Witness ==
    /\ fout # <<>>
    /\ fin.auto_enabled
    /\ fin.requested_workers = 0
    /\ fin.rps = 10000
    /\ cpu = 1
    /\ fout[1].chosen = 2

\* C24 as stated: with auto-sizing and no requested count the reason is
\* exactly the label "auto".
C24_Original ==
    (fout # <<>> /\ fin.auto_enabled /\ fin.requested_workers = 0) =>
        fout[1].reason = [text |-> "auto", fields |-> <<>>]

\* C24 as amended: the reason is the label "auto" followed by the sizing
\* details: the per-worker target, base, cap and cpu count, in that order.
C24_AutoReasonWithDetails ==
    (fout # <<>> /\ fin.auto_enabled /\ fin.requested_workers = 0) =>
        /\ fout[1].reason.text = "auto (rps/{} -> base={}, cap={}, cpu={})"
        /\ fout[1].reason.fields = <<fin.per_worker_target, RefBase, RefCap, RefCpu>>
        /\ fout[1].chosen = (IF RefBase <= RefCap THEN RefBase ELSE RefCap)

C24_Witness ==
    /\ fout # <<>>
    /\ fin.auto_enabled
    /\ fin.requested_workers = 0
    /\ fin.rps = 10000
    /\ cpu = 4
    /\ fout[1].chosen = 4
    /\ fout[1].reason.fields = <<2500, 4, 8, 4>>

\* ============================================= the interval on its own
IntervalInit ==
    /\ fin \in (-1..MaxRateNum) \X (1..MaxRateDen)
    /\ fout = <<>>
    /\ WorkerIdle
    /\ OrchIdle

\* worker.py:77
ComputeInterval ==
    /\ fout = <<>>
    /\ fout' = <<IntervalSec(fin)>>
    /\ UNCHANGED <<fin, wvars, ovars>>

NextInterval == ComputeInterval

SpecInterval == IntervalInit /\ [][NextInterval]_vars

\* C26: the interval is computed for every rate (its denominator is never 0);
\* it is 1 second for a rate below 1, zero included, and 1 / rate for a rate
\* of at least 1; it is above 0 and at most 1 second.
C26_IntervalClamped ==
    fout # <<>> =>
        /\ fout[1][2] # 0
        /\ fin[1] < fin[2] => fout[1][1] = fout[1][2]
        /\ fin[1] >= fin[2] => fout[1][1] * fin[1] = fout[1][2] * fin[2]
        /\ fout[1][1] > 0
        /\ fout[1][2] > 0
        /\ fout[1][1] <= fout[1][2]

C26_Witness ==
    /\ fout # <<>>
    /\ fin = <<0, 1>>
    /\ fout[1] = <<1, 1>>

\* ============================================= percentile on its own
\* int(k) for the fraction num / den, den > 0: truncation towards zero.
IntOf(num, den) == IF num >= 0 THEN num \div den ELSE -((-num) \div den)

PercentileAlwaysInterpolates(sorted_values, p) ==
    IF sorted_values = <<>> THEN <<0, 1>>
    ELSE LET n == Len(sorted_values)
             k == (n - 1) * p
             f == IntOf(k, 100)
             c == MinOf(f + 1, n - 1)
         IN  <<sorted_values[f + 1] * (c * 100 - k)
                 + sorted_values[c + 1] * (k - f * 100), 100>>

PercentileSwapped(sorted_values, p) ==
    IF sorted_values = <<>> THEN <<0, 1>>
    ELSE LET n == Len(sorted_values)
             k == (n - 1) * p
             f == IntOf(k, 100)
             c == MinOf(f + 1, n - 1)
         IN  IF f = c THEN <<sorted_values[f + 1], 1>>
             ELSE <<sorted_values[f + 1] * (k - f * 100)
                      + sorted_values[c + 1] * (c * 100 - k), 100>>

\* utils.py:19-29, as a fraction <<numerator, denominator>>; k is in
\* hundredths, and Python's index i is i + 1 here.
Percentile(sorted_values, p) ==
    IF sorted_values = <<>> THEN <<0, 1>>
    ELSE LET n == Len(sorted_values)
             k == (n - 1) * p
             f == IntOf(k, 100)
             c == MinOf(f + 1, n - 1)
         IN  IF f = c THEN <<sorted_values[f + 1], 1>>
             ELSE <<sorted_values[f + 1] * (c * 100 - k)
                      + sorted_values[c + 1] * (k - f * 100), 100>>

\* The percentiles asked for: the ends of [0, 100], the ones the report
\* prints, and some that fall on and between elements.
PctValues == {0, 1, 25, 50, 75, 90, 95, 99, 100}

PctInit ==
    /\ \E n \in 0..MaxPctLen : \E S \in [1..n -> 0..MaxPctValue], p \in PctValues :
          fin = [sorted_values |-> Sorted(S), p |-> p]
    /\ fout = <<>>
    /\ WorkerIdle
    /\ OrchIdle

ComputePercentile ==
    /\ fout = <<>>
    /\ fout' = <<Percentile(fin.sorted_values, fin.p)>>
    /\ UNCHANGED <<fin, wvars, ovars>>

NextPct == ComputePercentile

SpecPct == PctInit /\ [][NextPct]_vars

\* floor(k) for k = num / 100 >= 0: the greatest whole number not above it.
RefFloor(num) == CHOOSE i \in 0..num : i * 100 <= num /\ (i + 1) * 100 > num

\* C30: for a sorted sequence S of n >= 1 elements and p in [0, 100],
\* percentile(S, p) is S[f] when f = c and S[f] * (c - k) + S[c] * (k - f)
\* otherwise, where k = (n - 1) * p / 100, f = floor(k), c = min(f + 1, n - 1),
\* and f and c are indices of S; for the empty sequence it is 0.
C30_PercentileReference ==
    fout # <<>> =>
        LET S == fin.sorted_values
            n == Len(S)
            k == (n - 1) * fin.p
            f == RefFloor(k)
            c == IF f + 1 <= n - 1 THEN f + 1 ELSE n - 1
        IN  IF n = 0 THEN fout[1][1] = 0 /\ fout[1][2] # 0
            ELSE /\ 0 <= f /\ f <= n - 1
                 /\ 0 <= c /\ c <= n - 1
                 /\ fout[1][2] > 0
                 /\ IF f = c
                    THEN fout[1][1] = S[f + 1] * fout[1][2]
                    ELSE fout[1][1] * 100 =
                           (S[f + 1] * (c * 100 - k) + S[c + 1] * (k - f * 100)) * fout[1][2]

C30_Witness ==
    /\ fout # <<>>
    /\ fin.sorted_values = <<0, 1, 2>>
    /\ fin.p = 75
    /\ fout[1] = <<150, 100>>

RECURSIVE SumSeq(_)
SumSeq(seq) == IF seq = <<>> THEN 0 ELSE Head(seq) + SumSeq(Tail(seq))

\* statistics.median of the ascending sequence lat, as a fraction.
Median(lat) ==
    IF Len(lat) % 2 = 1 THEN <<lat[(Len(lat) + 1) \div 2], 1>>
    ELSE <<lat[Len(lat) \div 2] + lat[Len(lat) \div 2 + 1], 2>>

PrintReportUnsorted(a, duration) ==
    LET lat == a.lat
    IN  [ total      |-> a.total,
          oks        |-> a.oks,
          fails      |-> a.fails,
          lat        |-> lat,
          rps        |-> IF duration > 0 THEN <<a.total, duration>> ELSE <<0, 1>>,
          throughput_bytes |->
              IF duration > 0 THEN <<a.total_bytes, duration>> ELSE <<0, 1>>,
          lat_min    |-> IF lat # <<>> THEN lat[1] ELSE 0,
          lat_max    |-> IF lat # <<>> THEN lat[Len(lat)] ELSE 0,
          lat_avg    |-> IF lat # <<>> THEN <<SumSeq(lat), Len(lat)>> ELSE <<0, 1>>,
          lat_median |-> IF lat # <<>> THEN Median(lat) ELSE <<0, 1>>,
          p50        |-> Percentile(lat, 50),
          p90        |-> Percentile(lat, 90),
          p95        |-> Percentile(lat, 95),
          p99        |-> Percentile(lat, 99) ]

\* report.py:10-27: what print_report computes from the aggregate before it
\* prints (the standard deviation, a square root, is left out); lat is the
\* sequence every latency statistic is taken from.
PrintReport(a, duration) ==
    LET lat == Sorted(a.lat)
    IN  [ total      |-> a.total,
          oks        |-> a.oks,
          fails      |-> a.fails,
          lat        |-> lat,
          rps        |-> IF duration > 0 THEN <<a.total, duration>> ELSE <<0, 1>>,
          throughput_bytes |->
              IF duration > 0 THEN <<a.total_bytes, duration>> ELSE <<0, 1>>,
          lat_min    |-> IF lat # <<>> THEN lat[1] ELSE 0,
          lat_max    |-> IF lat # <<>> THEN lat[Len(lat)] ELSE 0,
          lat_avg    |-> IF lat # <<>> THEN <<SumSeq(lat), Len(lat)>> ELSE <<0, 1>>,
          lat_median |-> IF lat # <<>> THEN Median(lat) ELSE <<0, 1>>,
          p50        |-> Percentile(lat, 50),
          p90        |-> Percentile(lat, 90),
          p95        |-> Percentile(lat, 95),
          p99        |-> Percentile(lat, 99) ]

\* cli.py:115-127: the aggregate after the summaries in parts, in that order.
RECURSIVE MergeAll(_)
MergeAll(parts) ==
    IF parts = <<>> THEN EmptyAgg
    ELSE Merge(MergeAll(SubSeq(parts, 1, Len(parts) - 1)), parts[Len(parts)])

\* The summaries of workers whose requests all got a 200, after the
\* latencies in l.
RepParts ==
    { Summary([ i \in 1..Len(l) |->
                  MakeResult(i, 0, l[i], [exc |-> NoExc, status |-> 200, body |-> 0]) ])
        : l \in UNION { [1..n -> 1..MaxRepLat] : n \in 0..MaxRepResults } }

RepInit ==
    /\ \E n \in 1..MaxRepWorkers :
          \E parts \in [1..n -> RepParts], d \in 0..MaxRepDuration :
              fin = [parts |-> parts, duration |-> d]
    /\ fout = <<>>
    /\ WorkerIdle
    /\ OrchIdle

\* cli.py:117-139: the summaries are merged in the order they arrived and
\* the aggregate is handed to print_report.
Report ==
    /\ fout = <<>>
    /\ fout' = <<PrintReport(MergeAll(fin.parts), fin.duration)>>
    /\ UNCHANGED <<fin, wvars, ovars>>

NextRep == Report

SpecRep == RepInit /\ [][NextRep]_vars

\* How often v is in seq.
Count(seq, v) == Cardinality({ i \in 1..Len(seq) : seq[i] = v })

\* How often v is in the latency lists of the summaries in parts.
RECURSIVE CountAll(_, _)
CountAll(parts, v) ==
    IF parts = <<>> THEN 0 ELSE Count(Head(parts).lat, v) + CountAll(Tail(parts), v)

\* The summaries in parts, last first.
Reversed(parts) == [ i \in 1..Len(parts) |-> parts[Len(parts) + 1 - i] ]

\* C29: the sequence the report takes min, max and the percentiles from is
\* ascending and holds every worker's latencies, each as often as the workers
\* have it together and nothing else; min and max are its ends, the
\* percentiles are percentile of it; and it is the same when the summaries
\* arrive in the opposite order.
C29_ReportOnSortedUnion ==
    fout # <<>> =>
        LET lat == fout[1].lat
        IN  /\ Ascending(lat)
            /\ \A v \in 0..MaxRepLat + 1 : Count(lat, v) = CountAll(fin.parts, v)
            /\ Len(lat) = SumField(fin.parts, "total")
            /\ lat # <<>> =>
                  /\ \A i \in 1..Len(lat) : fout[1].lat_min <= lat[i] /\ lat[i] <= fout[1].lat_max
                  /\ Count(lat, fout[1].lat_min) > 0
                  /\ Count(lat, fout[1].lat_max) > 0
            /\ fout[1].p50 = Percentile(lat, 50)
            /\ fout[1].p90 = Percentile(lat, 90)
            /\ fout[1].p95 = Percentile(lat, 95)
            /\ fout[1].p99 = Percentile(lat, 99)
            /\ lat = PrintReport(MergeAll(Reversed(fin.parts)), fin.duration).lat

C29_Witness ==
    /\ fout # <<>>
    /\ Len(fin.parts) = 2
    /\ fin.parts[1].lat = <<2, 3>>
    /\ fin.parts[2].lat = <<1, 2>>
    /\ fout[1].lat = <<1, 2, 2, 3>>
    /\ fout[1].lat_min = 1
    /\ fout[1].lat_max = 3

\* ============================================= the end of run on its own
\* cli.py:137
ActualDuration(duration, t0, t1) == IF duration > 0 THEN duration ELSE t1 - t0

\* The latency figures print_report, save_to_csv and save_report_html all
\* take from their own sorted copy of the aggregate's lat.
LatencyStats(lat) ==
    [ lat        |-> lat,
      lat_min    |-> IF lat # <<>> THEN lat[1] ELSE 0,
      lat_max    |-> IF lat # <<>> THEN lat[Len(lat)] ELSE 0,
      lat_avg    |-> IF lat # <<>> THEN <<SumSeq(lat), Len(lat)>> ELSE <<0, 1>>,
      lat_median |-> IF lat # <<>> THEN Median(lat) ELSE <<0, 1>>,
      p50        |-> Percentile(lat, 50),
      p90        |-> Percentile(lat, 90),
      p95        |-> Percentile(lat, 95),
      p99        |-> Percentile(lat, 99) ]

\* utils.py:40-86: the rows written; the division by a duration of 0 raises
\* inside the try and nothing is saved; the latency rows are written only
\* when there are latencies.
SaveToCsv(a, duration) ==
    IF duration = 0 THEN [ failed |-> TRUE ]
    ELSE [ failed       |-> FALSE,
           total        |-> a.total,
           duration     |-> duration,
           throughput   |-> <<a.total, duration>>,
           oks          |-> a.oks,
           fails        |-> a.fails,
           success_rate |-> IF a.total # 0 THEN <<a.oks * 100, a.total>> ELSE <<0, 1>>,
           total_bytes  |-> a.total_bytes,
           latency      |-> IF Sorted(a.lat) # <<>>
                            THEN <<LatencyStats(Sorted(a.lat))>> ELSE <<>>,
           codes        |-> a.codes,
           error_types  |-> a.error_types ]

\* report.py:61-128: the payload embedded in the page (the histogram and the
\* standard deviation are left out; the sample is lat itself up to 2000
\* points).
SaveReportHtml(a, duration) ==
    [ total            |-> a.total,
      oks              |-> a.oks,
      fails            |-> a.fails,
      duration         |-> duration,
      rps              |-> IF duration > 0 THEN <<a.total, duration>> ELSE <<0, 1>>,
      total_bytes      |-> a.total_bytes,
      throughput_bytes |->
          IF duration > 0 THEN <<a.total_bytes, duration>> ELSE <<0, 1>>,
      success_rate     |-> IF a.total # 0 THEN <<a.oks * 100, a.total>> ELSE <<0, 1>>,
      latency          |-> LatencyStats(Sorted(a.lat)),
      codes            |-> a.codes,
      error_types      |-> a.error_types ]

\* What the function of that kind computes from aggregate a.
Output(kind, a, duration) ==
    CASE kind = "print" -> PrintReport(a, duration)
      [] kind = "csv"   -> SaveToCsv(a, duration)
      [] kind = "html"  -> SaveReportHtml(a, duration)

AfterSortInPlace(a) == [ a EXCEPT !.lat = Sorted(a.lat) ]

\* The aggregate after print_report, save_to_csv or save_report_html has
\* read it: report.py:14 and 73 and utils.py:55 sort a copy (sorted()), and
\* nothing else assigns into agg.
AfterReading(a) == a

\* The summaries of workers whose requests all got a 200 with a body of one
\* byte, after the latencies in l.
OutParts ==
    { Summary([ i \in 1..Len(l) |->
                  MakeResult(i, 0, l[i], [exc |-> NoExc, status |-> 200, body |-> 1]) ])
        : l \in UNION { [1..n -> 1..MaxOutLat] : n \in 0..MaxOutResults } }

\* cli.py:133-136: the processes are joined and t1 is read.  The duration
\* passed validation (> 0); every worker ran its loop for that long after
\* t0, so t1 - t0 is at least the duration, and more by the time taken to
\* start the processes and to drain the requests in flight at the deadline.
OutInit ==
    /\ \E n \in 1..MaxOutWorkers :
          \E parts \in [1..n -> OutParts], d \in 1..MaxOutDuration, x \in 0..MaxOutDrain,
             csv \in BOOLEAN, html \in BOOLEAN :
              fin = [ agg |-> MergeAll(parts), duration |-> d, t0 |-> 0, t1 |-> d + x,
                      csv |-> csv, html |-> html ]
    /\ fout = <<>>
    /\ WorkerIdle
    /\ OrchIdle

\* The output of that kind has been produced.
Done(kind) == \E i \in 1..Len(fout) : fout[i].kind = kind

Produce(kind) ==
    /\ fout' = Append(fout, [ kind |-> kind,
                              out  |-> Output(kind, fin.agg,
                                          ActualDuration(fin.duration, fin.t0, fin.t1)) ])
    /\ fin' = [ fin EXCEPT !.agg = AfterReading(fin.agg) ]
    /\ UNCHANGED <<wvars, ovars>>

\* cli.py:139
OutPrint == fout = <<>> /\ Produce("print")

\* cli.py:141-142
OutCsv ==
    /\ Done("print")
    /\ fin.csv
    /\ ~Done("csv")
    /\ ~Done("html")
    /\ Produce("csv")

\* cli.py:144-147
OutHtml ==
    /\ Done("print")
    /\ fin.csv => Done("csv")
    /\ fin.html
    /\ ~Done("html")
    /\ Produce("html")

NextOut == OutPrint \/ OutCsv \/ OutHtml

SpecOut == OutInit /\ [][NextOut]_vars

C33_Original ==
    \A i \in 1..Len(fout) :
        fout[i].kind = "print" =>
            /\ fout[i].out.rps[1] * (fin.t1 - fin.t0)
                  = fin.agg.total * fout[i].out.rps[2]
            /\ fout[i].out.throughput_bytes[1] * (fin.t1 - fin.t0)
                  = fin.agg.total_bytes * fout[i].out.throughput_bytes[2]

\* ============================================= arrival orders compared
\* The summaries a worker can put after up to MaxPermResults requests with
\* any outcomes and latencies.
PermParts ==
    { Summary([ i \in 1..Len(l) |-> MakeResult(i, 0, l[i][1], l[i][2]) ])
        : l \in UNION { [1..n -> (1..MaxPermLat) \X Outcomes] : n \in 0..MaxPermResults } }

\* The orders n summaries can arrive in.
Orders(n) == { f \in [1..n -> 1..n] : \A i, j \in 1..n : f[i] = f[j] => i = j }

\* cli.py:115-139 for the summaries in parts taken off the queue in that
\* order: the aggregate, and the latencies as print_report sorts them.
Collected(parts) ==
    [ agg |-> MergeAll(parts), lat |-> PrintReport(MergeAll(parts), 1).lat ]

PermInit ==
    /\ \E n \in 1..MaxPermWorkers :
          \E parts \in [1..n -> PermParts], order \in Orders(n) :
              fin = [ parts |-> parts, order |-> order ]
    /\ fout = <<>>
    /\ WorkerIdle
    /\ OrchIdle

\* The same summaries collected as put, and in the other order.
CollectBoth ==
    /\ fout = <<>>
    /\ fout' = << Collected(fin.parts),
                  Collected([ i \in 1..Len(fin.parts) |-> fin.parts[fin.order[i]] ]) >>
    /\ UNCHANGED <<fin, wvars, ovars>>

NextPerm == CollectBoth

SpecPerm == PermInit /\ [][NextPerm]_vars

\* C38: the same summaries merged in any two orders give the same total,
\* oks, fails, total_bytes, codes, error_types and sorted latencies.
C38_OrderIndependent ==
    fout # <<>> =>
        /\ fout[1].agg.total = fout[2].agg.total
        /\ fout[1].agg.oks = fout[2].agg.oks
        /\ fout[1].agg.fails = fout[2].agg.fails
        /\ fout[1].agg.total_bytes = fout[2].agg.total_bytes
        /\ fout[1].agg.codes = fout[2].agg.codes
        /\ fout[1].agg.error_types = fout[2].agg.error_types
        /\ fout[1].lat = fout[2].lat

C38_Witness ==
    /\ fout # <<>>
    /\ fin.order = <<2, 1>>
    /\ fout[1].agg.lat = <<2, 1>>
    /\ fout[2].agg.lat = <<1, 2>>
    /\ fout[1].lat = <<1, 2>>
    /\ fout[1].agg.codes # fin.parts[1].codes
    /\ fout[1].agg.total_bytes = 3

TypeOK ==
    /\ pc \in {"setup", "crashed", "deadline", "next_fire", "loop", "sleep", "wake",
               "gather", "gathered", "done"}
    /\ \A t \in 1..fired :
          tstate[t] \in {"created", "waiting", "woken", "inflight", "ioready", "done"}

====
